---------------------------- MODULE Spec2Model ----------------------------
(***************************************************************************)
(* Model of the page-motion scripts of the site:                           *)
(*   - the two motion controllers (two IIFEs of one script file, evaluated *)
(*     one after the other), each with its capability gate, its startup    *)
(*     registration pass under a try/catch, its scroll-velocity estimator  *)
(*     and its pointer-magnetism handlers;                                 *)
(*   - the mobile override script (assets/js/mobile-optimize.js).          *)
(* The animation library (gsap, ScrollTrigger) and the DOM are the         *)
(* environment: a library call records the tween or listener it creates,   *)
(* and may throw.                                                          *)
(***************************************************************************)
EXTENDS Integers, Sequences, FiniteSets, TLC

(***************************************************************************)
(* Bounds of the model.                                                    *)
(***************************************************************************)
\* elements matched by a selector that matches at all
MaxElems == 2
\* estimator updates (samples) made in one behaviour, both controllers together
MaxSamples == 6
\* the same, in the specification of settling after the scroll stops
MaxSettleSamples == 2

(***************************************************************************)
(* Program constants.                                                      *)
(***************************************************************************)
\* velocityHistory.length > 5
HistoryLimit == 5
\* throttle(handleScroll, 50)
ThrottleLimit == 50
\* x * 0.08, y * 0.08: the pull of a button towards the pointer, in 1/100
Magnetism == 8

Controllers == {1, 2}

\* the selectors the controllers query, in the order of their first use
Selectors ==
    << ".cs_hero", ".cs_hero_content_wrapper", ".cs_hero_info_box",
       ".cs_hero_shape_2", ".cs_about_thumbnail img",
       ".cs_about_thumbnail_1 img, .cs_testimonial_thumbnail img",
       ".property-card", ".cs_card.cs_style_5",
       ".specialites, .cs_testimonial", ".cs_info_item",
       ".cs_btn.cs_style_1" >>

SelectorSet == { Selectors[i] : i \in 1..Len(Selectors) }

\* documents: every selector matches MaxElems elements but at most one that
\* matches none, or no selector matches but at most one
Docs ==
    { d \in [SelectorSet -> {0, MaxElems}] :
        \/ Cardinality({ s \in SelectorSet : d[s] = 0 }) <= 1
        \/ Cardinality({ s \in SelectorSet : d[s] # 0 }) <= 1 }

FullDoc == [s \in SelectorSet |-> MaxElems]

VARIABLES
    \* ---- environment, fixed at page load
    gsapDefined,            \* typeof gsap !== 'undefined'
    ScrollTriggerDefined,   \* typeof ScrollTrigger !== 'undefined'
    prefersReducedMotion,   \* matchMedia('(prefers-reduced-motion: reduce)').matches
    isMobile,               \* the user-agent test of both scripts
    dom,                    \* number of elements each selector matches
    \* ---- page and startup state
    readyState,             \* document.readyState: "loading" or "interactive"
    script,                 \* progress of each script's top-level code
    registry,               \* tweens and listeners created, in creation order
    initState,              \* per controller: "idle", "done" or "caught"
    thrownIn,               \* per controller: the registration call that threw
    console,                \* messages written to the console
    uncaught,               \* exceptions that reached the page
    htmlClasses,            \* classes of document.documentElement
    mobileApplied           \* times the mobile override has been applied

envVars == << gsapDefined, ScrollTriggerDefined, prefersReducedMotion,
              isMobile, dom >>
startVars == << readyState, script, registry, initState, thrownIn, console,
                uncaught, htmlClasses, mobileApplied >>

-----------------------------------------------------------------------------
(***************************************************************************)
(* Sequence helpers.                                                       *)
(***************************************************************************)
RECURSIVE Flatten(_)
Flatten(ss) == IF ss = << >> THEN << >> ELSE Head(ss) \o Flatten(Tail(ss))

\* elements.forEach((el, index) => F(index)) with the registrations it makes
ForEach(n, F(_)) == Flatten([i \in 1..n |-> F(i)])

Prefix(s, k) == SubSeq(s, 1, k)

IsPrefix(s, t) == Len(s) <= Len(t) /\ SubSeq(t, 1, Len(s)) = s

(***************************************************************************)
(* Entries of the registry.                                                *)
(***************************************************************************)
\* gsap.set / gsap.to / gsap.from / gsap.fromTo on the idx-th match of sel;
\* st: the tween carries a scrollTrigger configuration
Tween(c, fn, op, sel, idx, st) ==
    [ctl |-> c, fn |-> fn, op |-> op, sel |-> sel, idx |-> idx,
     ev |-> "", st |-> st]

\* target.addEventListener(ev, ...)
Listener(c, fn, sel, idx, ev) ==
    [ctl |-> c, fn |-> fn, op |-> "listen", sel |-> sel, idx |-> idx,
     ev |-> ev, st |-> FALSE]


-----------------------------------------------------------------------------
(***************************************************************************)
(* The registration functions: each yields, for document d, the tweens and *)
(* listeners it creates, in creation order.  c is the controller (1: the   *)
(* first IIFE, 2: the second).                                             *)
(***************************************************************************)

\* the parallax layers of the hero; mobile: the layer is kept on mobile
parallaxElements ==
    << [element |-> ".cs_hero_content_wrapper", mobile |-> TRUE],
       [element |-> ".cs_hero_info_box", mobile |-> FALSE],
       [element |-> ".cs_hero_shape_2", mobile |-> FALSE] >>

\* the layer's tween created without "if (element)"
ParallaxLayerUnchecked(c, d, layer, mob) ==
    IF mob /\ ~layer.mobile THEN << >>
    ELSE << Tween(c, "multiLayerParallax", "to", layer.element, 1, TRUE) >>

\* the scrubbed tween of one layer, if document.querySelector finds it
ParallaxLayer(c, d, layer, mob) ==
    IF mob /\ ~layer.mobile THEN << >>
    ELSE IF d[layer.element] > 0
         THEN << Tween(c, "multiLayerParallax", "to", layer.element, 1, TRUE) >>
         ELSE << >>

\* the about-section images, one scrubbed tween each
AboutImages(c, d) ==
    ForEach(d[".cs_about_thumbnail img"],
            LAMBDA i : << Tween(c, "multiLayerParallax", "to",
                                ".cs_about_thumbnail img", i, TRUE) >>)

\* first controller; mob is the controller's isMobile
multiLayerParallax1(d, mob) ==
    IF d[".cs_hero"] = 0 THEN << >>
    ELSE IF mob
         THEN << Tween(1, "multiLayerParallax", "from", ".cs_hero", 1, FALSE) >>
         ELSE ForEach(Len(parallaxElements),
                      LAMBDA k : ParallaxLayer(1, d, parallaxElements[k], mob))
              \o AboutImages(1, d)

\* second controller: no mobile branch
multiLayerParallax2(d) ==
    IF d[".cs_hero"] = 0 THEN << >>
    ELSE ForEach(Len(parallaxElements),
                 LAMBDA k : ParallaxLayer(2, d, parallaxElements[k], FALSE))
         \o AboutImages(2, d)

imageFocusTransition(c, d) ==
    ForEach(d[".cs_about_thumbnail_1 img, .cs_testimonial_thumbnail img"],
            LAMBDA i :
              << Tween(c, "imageFocusTransition", "set",
                       ".cs_about_thumbnail_1 img, .cs_testimonial_thumbnail img",
                       i, FALSE),
                 Tween(c, "imageFocusTransition", "to",
                       ".cs_about_thumbnail_1 img, .cs_testimonial_thumbnail img",
                       i, TRUE) >>)

\* the velocity-reaction tweens of the cards
VelocityElements(c, d) ==
    ForEach(d[".property-card"],
            LAMBDA i :
              << Tween(c, "scrollVelocityParallax", "set", ".property-card", i, FALSE),
                 Tween(c, "scrollVelocityParallax", "to", ".property-card", i, FALSE) >>)

\* first controller: nothing on mobile, else the (throttled) scroll listener
\* and the card tweens
scrollVelocityParallax1(d, mob) ==
    IF mob THEN << >>
    ELSE << Listener(1, "scrollVelocityParallax", "window", 1, "scroll") >>
         \o VelocityElements(1, d)

\* second controller: the plain scroll listener and the card tweens
scrollVelocityParallax2(d) ==
    << Listener(2, "scrollVelocityParallax", "window", 1, "scroll") >>
    \o VelocityElements(2, d)

pinnedSectionMicroMovements(c, d) ==
    ForEach(d[".cs_card.cs_style_5"],
            LAMBDA i :
              << Tween(c, "pinnedSectionMicroMovements", "to",
                       ".cs_card.cs_style_5", i, FALSE),
                 Tween(c, "pinnedSectionMicroMovements", "fromTo",
                       ".cs_card.cs_style_5", i, TRUE) >>)

subtlePerspectiveDepth(c, d) ==
    ForEach(d[".specialites, .cs_testimonial"],
            LAMBDA i :
              << Tween(c, "subtlePerspectiveDepth", "set",
                       ".specialites, .cs_testimonial", i, FALSE),
                 Tween(c, "subtlePerspectiveDepth", "fromTo",
                       ".specialites, .cs_testimonial", i, TRUE) >>)
    \o ForEach(d[".cs_info_item"],
               LAMBDA i : << Tween(c, "subtlePerspectiveDepth", "to",
                                   ".cs_info_item", i, TRUE) >>)

magneticHoverEffect(c, d) ==
    ForEach(d[".cs_btn.cs_style_1"],
            LAMBDA i :
              << Listener(c, "magneticHoverEffect", ".cs_btn.cs_style_1", i, "mouseenter"),
                 Listener(c, "magneticHoverEffect", ".cs_btn.cs_style_1", i, "mouseleave"),
                 Listener(c, "magneticHoverEffect", ".cs_btn.cs_style_1", i, "mousemove") >>)

\* first controller, mobile only: three listeners on document
optimizeTouchEvents ==
    << Listener(1, "optimizeTouchEvents", "document", 1, "touchstart"),
       Listener(1, "optimizeTouchEvents", "document", 1, "touchstart"),
       Listener(1, "optimizeTouchEvents", "document", 1, "touchmove") >>

\* the body of the try block of initPremiumAnimations when no call throws
initPremiumAnimations1(d, mob) ==
    (IF ~mob
       THEN multiLayerParallax1(d, mob) \o scrollVelocityParallax1(d, mob)
            \o pinnedSectionMicroMovements(1, d) \o subtlePerspectiveDepth(1, d)
            \o magneticHoverEffect(1, d)
       ELSE << >>)
    \o imageFocusTransition(1, d)
    \o (IF mob THEN optimizeTouchEvents ELSE << >>)

initPremiumAnimations2(d) ==
    multiLayerParallax2(d) \o imageFocusTransition(2, d)
    \o scrollVelocityParallax2(d) \o pinnedSectionMicroMovements(2, d)
    \o subtlePerspectiveDepth(2, d) \o magneticHoverEffect(2, d)

initPremiumAnimations(c, d, mob) ==
    IF c = 1 THEN initPremiumAnimations1(d, mob) ELSE initPremiumAnimations2(d)

\* A library call can throw: the positions p of a pass at which a gsap call
\* is made (p = 0: no call throws).  addEventListener does not throw.
ThrowPoints(pass) ==
    {0} \cup { p \in 1..Len(pass) : pass[p].op # "listen" }

\* try { ...registration calls... } catch (error) { console.error(...) }:
\* what the pass has registered when the call at position p throws
TryRegistrations(pass, p) ==
    IF p = 0 THEN pass ELSE Prefix(pass, p - 1)

\* a catch block that logs and throws the error again
CatchBlockRethrows(c, p) ==
    [state |-> IF p = 0 THEN "done" ELSE "caught",
     console |-> IF p = 0 THEN {} ELSE {<< c, "error" >>},
     uncaught |-> IF p = 0 THEN {} ELSE {<< c, "init" >>}]

\* the catch block: the error is logged and goes no further
CatchBlock(c, p) ==
    [state |-> IF p = 0 THEN "done" ELSE "caught",
     console |-> IF p = 0 THEN {} ELSE {<< c, "error" >>},
     uncaught |-> {}]


-----------------------------------------------------------------------------
(***************************************************************************)
(* Runtime state: the scroll-velocity estimators, the throttle, the        *)
(* animation-frame request, the velocity-reaction tweens and the buttons.  *)
(***************************************************************************)
VARIABLES
    scrollY,            \* window.scrollY
    scrolling,          \* the user may still scroll
    lastScrollY,        \* per controller
    scrollVelocity,     \* per controller, a fraction [num, den] in lowest terms
    velocityHistory,    \* per controller
    inThrottle,         \* the flag of throttle()'s closure (first controller)
    throttleTimer,      \* ms since setTimeout, -1 when no timer is pending
    ticking,            \* first controller
    rafPending,         \* updateVelocity is queued for the next frame
    cardTween,          \* per controller: the velocity-reaction tweens' phase
    cardAmp,            \* per controller: the velocity the tweens resolved
    cardReset,          \* per controller: a tween to y: 0, rotation: 0 exists
    btnTarget,          \* per button: the x, y of the newest tween, in 1/100 px
    \* ---- history variables, read by the properties only
    deltas,             \* per controller: every instantVelocity, in order
    mutInFrame,         \* per controller: estimator updates since the frame began
    mutInWindow,        \* per controller: updates since the throttle last let an event through
    win,                \* the throttle's current window: calls of handleScroll,
                        \* frame requests, timer age at the last dropped event
    lastMouse           \* per button: the last pointer event and its offset

scrollVars == << scrollY, scrolling, lastScrollY, scrollVelocity,
                 velocityHistory, inThrottle, throttleTimer, ticking,
                 rafPending, deltas, mutInFrame, mutInWindow, win >>
cardVars == << cardTween, cardAmp, cardReset >>
magnetVars == << btnTarget, lastMouse >>

vars == << envVars, startVars, scrollVars, cardVars, magnetVars >>

\* window.scrollY takes these values
ScrollPositions == {0, 10}
\* the ages (ms) at which the throttle's timer is observed: just set, 10 ms
\* later, due
Instants == {0, 10, ThrottleLimit}
\* pointer positions and button boxes of the pointer events
ClientXs == {110, 120, 140}
ClientYs == {50, 60, 80}
Rects == { [left |-> 100, top |-> 50, width |-> 40, height |-> 20],
           [left |-> 102, top |-> 49, width |-> 40, height |-> 20] }

Buttons == 1..MaxElems

-----------------------------------------------------------------------------
(***************************************************************************)
(* Numbers: a mean of integers is kept as a fraction in lowest terms.      *)
(***************************************************************************)
Abs(x) == IF x < 0 THEN -x ELSE x

Min(a, b) == IF a < b THEN a ELSE b

RECURSIVE GCD(_, _)
GCD(a, b) == IF b = 0 THEN a ELSE GCD(b, a % b)

Frac(n, d) == [num |-> n \div GCD(n, d), den |-> d \div GCD(n, d)]

Zero == [num |-> 0, den |-> 1]

\* velocityHistory.reduce((a, b) => a + b, 0)
RECURSIVE Sum(_)
Sum(h) == IF h = << >> THEN 0 ELSE Head(h) + Sum(Tail(h))

\* the mean taken over a full window whatever the history holds
MeanOverFullWindow(h) == Frac(Sum(h), HistoryLimit)

\* ... / velocityHistory.length
Mean(h) == Frac(Sum(h), Len(h))

\* scrollVelocity < 0.5
BelowThreshold(v) == 2 * v.num < v.den

(***************************************************************************)
(* The estimator update, the same statements in updateVelocity (first      *)
(* controller) and in the scroll listener (second controller).             *)
(***************************************************************************)
\* pop() in place of shift(): the newest entry is the one evicted
PushHistoryEvictNewest(h, v) ==
    IF Len(Append(h, v)) > HistoryLimit THEN h ELSE Append(h, v)

\* velocityHistory.push(v); if (velocityHistory.length > 5) velocityHistory.shift()
PushHistory(h, v) ==
    IF Len(Append(h, v)) > HistoryLimit THEN Tail(Append(h, v)) ELSE Append(h, v)

\* the estimator of controller c samples window.scrollY = y
Sample(c, y) ==
    /\ velocityHistory' =
         [velocityHistory EXCEPT ![c] = PushHistory(@, Abs(y - lastScrollY[c]))]
    /\ scrollVelocity' =
         [scrollVelocity EXCEPT
            ![c] = Mean(PushHistory(velocityHistory[c], Abs(y - lastScrollY[c])))]
    /\ lastScrollY' = [lastScrollY EXCEPT ![c] = y]
    /\ deltas' = [deltas EXCEPT ![c] = Append(@, Abs(y - lastScrollY[c]))]

NoSample ==
    UNCHANGED << velocityHistory, scrollVelocity, lastScrollY, deltas >>

-----------------------------------------------------------------------------
(***************************************************************************)
(* Initial states.                                                         *)
(***************************************************************************)
Scripts == {0, 1, 2}     \* 0: the mobile override, 1 and 2: the controllers

NoWindow == [calls |-> 0, rafs |-> 0, dropAt |-> -1]

NoRect == [left |-> 0, top |-> 0, width |-> 0, height |-> 0]

NoMouse == [type |-> "none", cx |-> 0, cy |-> 0, rect |-> NoRect,
            handled |-> FALSE]

InitPage ==
    /\ readyState = "loading"
    /\ script = [s \in Scripts |-> "pending"]
    /\ registry = << >>
    /\ initState = [c \in Controllers |-> "idle"]
    /\ thrownIn = [c \in Controllers |-> ""]
    /\ console = {}
    /\ uncaught = {}
    /\ htmlClasses = {}
    /\ mobileApplied = 0
    /\ scrolling = TRUE
    /\ lastScrollY = [c \in Controllers |-> 0]
    /\ scrollVelocity = [c \in Controllers |-> Zero]
    /\ velocityHistory = [c \in Controllers |-> << >>]
    /\ inThrottle = FALSE
    /\ throttleTimer = -1
    /\ ticking = FALSE
    /\ rafPending = FALSE
    /\ cardTween = [c \in Controllers |-> "none"]
    /\ cardAmp = [c \in Controllers |-> Zero]
    /\ cardReset = [c \in Controllers |-> FALSE]
    /\ btnTarget = [b \in Buttons |-> [x |-> 0, y |-> 0]]
    /\ deltas = [c \in Controllers |-> << >>]
    /\ mutInFrame = [c \in Controllers |-> 0]
    /\ mutInWindow = [c \in Controllers |-> 0]
    /\ win = NoWindow
    /\ lastMouse = [b \in Buttons |-> NoMouse]

\* any environment, any document of Docs, the page not scrolled
Init ==
    /\ gsapDefined \in BOOLEAN
    /\ ScrollTriggerDefined \in BOOLEAN
    /\ prefersReducedMotion \in BOOLEAN
    /\ isMobile \in BOOLEAN
    /\ dom \in Docs
    /\ scrollY = 0
    /\ InitPage

\* motion wanted and possible, the full document, any scroll offset
InitMotion ==
    /\ gsapDefined = TRUE
    /\ ScrollTriggerDefined = TRUE
    /\ prefersReducedMotion = FALSE
    /\ isMobile \in BOOLEAN
    /\ dom = FullDoc
    /\ scrollY \in ScrollPositions
    /\ InitPage

-----------------------------------------------------------------------------
(***************************************************************************)
(* Startup: the top-level code of the three scripts and DOMContentLoaded.  *)
(***************************************************************************)
\* "&&" in place of "||"
GateClosedOnlyWhenBoth == ~gsapDefined /\ prefersReducedMotion

\* typeof gsap === 'undefined' || prefersReducedMotion
GateClosed == ~gsapDefined \/ prefersReducedMotion

\* the listeners the top-level code of a controller adds
TopLevelListeners(c) ==
    << Listener(c, "top", "document", 1, "DOMContentLoaded"),
       Listener(c, "top", "window", 1, "resize") >>

\* The top-level code of controller c.  setupThrows: a call of the
\* ScrollTrigger block throws; nothing catches it, and the rest of the
\* script file is not evaluated.
RunController(c, setupThrows) ==
    /\ script[c] = "pending"
    /\ c = 2 => script[1] \in {"gated", "done"}
    /\ setupThrows => (~GateClosed /\ ScrollTriggerDefined)
    /\ IF GateClosed
         THEN /\ console' = console \cup {<< c, "log" >>}
              /\ script' = [script EXCEPT ![c] = "gated"]
              /\ UNCHANGED << htmlClasses, uncaught, registry >>
         ELSE /\ htmlClasses' = IF c = 1 /\ isMobile
                                  THEN htmlClasses \cup {"mobile-device"}
                                  ELSE htmlClasses
              /\ IF setupThrows
                   THEN /\ uncaught' = uncaught \cup {<< c, "setup" >>}
                        /\ script' = [script EXCEPT ![c] = "threw"]
                        /\ UNCHANGED registry
                   ELSE /\ registry' = registry \o TopLevelListeners(c)
                        /\ script' = [script EXCEPT ![c] = "done"]
                        /\ UNCHANGED uncaught
              /\ UNCHANGED console
    /\ UNCHANGED << envVars, readyState, initState, thrownIn, mobileApplied,
                    scrollVars, cardVars, magnetVars >>

\* disableAnimations(); optimizeScrolling(); disableHoverEffects()
MobileOverrideListeners ==
    << Listener(0, "optimizeScrolling", "document", 1, "touchstart") >>

\* the override made to depend on the controllers' gate
RunMobileOptimizeBehindGate ==
    /\ script[0] = "pending"
    /\ script' = [script EXCEPT ![0] = "done"]
    /\ IF ~isMobile \/ GateClosed
         THEN UNCHANGED << registry, htmlClasses, mobileApplied >>
         ELSE IF readyState = "loading"
                THEN /\ registry' = registry \o
                           << Listener(0, "top", "document", 1, "DOMContentLoaded") >>
                     /\ UNCHANGED << htmlClasses, mobileApplied >>
                ELSE /\ registry' = registry \o MobileOverrideListeners
                     /\ htmlClasses' = htmlClasses \cup {"no-hover"}
                     /\ mobileApplied' = mobileApplied + 1
    /\ UNCHANGED << envVars, readyState, initState, thrownIn, console, uncaught,
                    scrollVars, cardVars, magnetVars >>

\* the top-level code of mobile-optimize.js
RunMobileOptimize ==
    /\ script[0] = "pending"
    /\ script' = [script EXCEPT ![0] = "done"]
    /\ IF ~isMobile
         THEN UNCHANGED << registry, htmlClasses, mobileApplied >>
         ELSE IF readyState = "loading"
                THEN /\ registry' = registry \o
                           << Listener(0, "top", "document", 1, "DOMContentLoaded") >>
                     /\ UNCHANGED << htmlClasses, mobileApplied >>
                ELSE /\ registry' = registry \o MobileOverrideListeners
                     /\ htmlClasses' = htmlClasses \cup {"no-hover"}
                     /\ mobileApplied' = mobileApplied + 1
    /\ UNCHANGED << envVars, readyState, initState, thrownIn, console, uncaught,
                    scrollVars, cardVars, magnetVars >>

\* the scripts whose DOMContentLoaded listener is registered, in order
DclHandlers ==
    SelectSeq(registry, LAMBDA e : e.op = "listen" /\ e.ev = "DOMContentLoaded")

HasDclHandler(s) == \E i \in 1..Len(DclHandlers) : DclHandlers[i].ctl = s

Registers(regs, c, fn, op) ==
    \E i \in 1..Len(regs) :
        regs[i].ctl = c /\ regs[i].fn = fn /\ regs[i].op = op

\* lastScrollY starting at the top of the page whatever the offset is
InitialLastScrollYZero(y) == 0

\* let lastScrollY = window.scrollY, with window.scrollY = y
InitialLastScrollY(y) == y

\* The document becomes ready: the registered listeners run in registration
\* order, each to completion.  The pass of controller c throws at a position
\* p[c] of allowed[c], or not at all.
DOMContentLoaded(allowed) ==
    /\ readyState = "loading"
    /\ readyState' = "interactive"
    /\ LET handlers == DclHandlers
           pass == [c \in Controllers |-> initPremiumAnimations(c, dom, isMobile)]
           points == [c \in Controllers |->
                        IF HasDclHandler(c)
                          THEN { q \in ThrowPoints(pass[c]) : q \in allowed[c] }
                          ELSE {0}]
       IN  \E p \in [Controllers -> points[1] \cup points[2]] :
             /\ \A c \in Controllers : p[c] \in points[c]
             /\ LET \* what the listener of script s registers
                    out == [s \in Scripts |->
                              IF s = 0 THEN MobileOverrideListeners
                              ELSE TryRegistrations(pass[s], p[s])]
                    new == Flatten([k \in 1..Len(handlers) |-> out[handlers[k].ctl]])
                IN  /\ registry' = registry \o new
                    /\ initState' =
                         [c \in Controllers |->
                            IF HasDclHandler(c) THEN CatchBlock(c, p[c]).state
                            ELSE "idle"]
                    /\ thrownIn' =
                         [c \in Controllers |->
                            IF p[c] = 0 THEN "" ELSE pass[c][p[c]].fn]
                    /\ console' = console \cup
                         UNION { CatchBlock(c, p[c]).console : c \in Controllers }
                    /\ uncaught' = uncaught \cup
                         UNION { CatchBlock(c, p[c]).uncaught : c \in Controllers }
                    \* scrollVelocityParallax: let lastScrollY = ...
                    /\ lastScrollY' =
                         [c \in Controllers |->
                            IF Registers(new, c, "scrollVelocityParallax", "listen")
                              THEN InitialLastScrollY(scrollY)
                              ELSE lastScrollY[c]]
                    \* gsap.to(element, { y: () => ..., onUpdate: ... })
                    /\ cardTween' =
                         [c \in Controllers |->
                            IF Registers(new, c, "scrollVelocityParallax", "to")
                              THEN "created" ELSE cardTween[c]]
    /\ IF HasDclHandler(0)
         THEN /\ htmlClasses' = htmlClasses \cup {"no-hover"}
              /\ mobileApplied' = mobileApplied + 1
         ELSE UNCHANGED << htmlClasses, mobileApplied >>
    /\ UNCHANGED << envVars, script, scrollY, scrolling,
                    scrollVelocity, velocityHistory, inThrottle, throttleTimer,
                    ticking, rafPending, deltas, mutInFrame, mutInWindow,
                    win, cardAmp, cardReset, magnetVars >>

\* where a pass may throw: anywhere, nowhere, or (second controller only) at
\* its first library call
Anywhere == [c \in Controllers |-> Nat]

Nowhere == [c \in Controllers |-> {0}]

EarlyInSecond == [c \in Controllers |-> IF c = 2 THEN {0, 1} ELSE {0}]

Startup ==
    \/ \E c \in Controllers, t \in BOOLEAN : RunController(c, t)
    \/ RunMobileOptimize
    \/ DOMContentLoaded(Anywhere)

Spec == Init /\ [][Startup]_vars

-----------------------------------------------------------------------------
(***************************************************************************)
(* Scrolling: the scroll event, the throttle's timer, the animation frame. *)
(***************************************************************************)
HasListener(c, sel, idx, ev) ==
    \E i \in 1..Len(registry) :
        /\ registry[i].ctl = c /\ registry[i].op = "listen"
        /\ registry[i].sel = sel /\ registry[i].idx = idx /\ registry[i].ev = ev

\* the throttle without "inThrottle = true": every event is let through
throttleFlagNeverSet(inT, timer) ==
    [called |-> TRUE, inThrottle |-> inT, timer |-> 0]

\* throttle(): if (!inThrottle) { func.apply(...); inThrottle = true; setTimeout(...) }
\* the flag, the timer and whether func is called, for an event arriving
\* when the flag is inT and the timer's age is timer
throttle(inT, timer) ==
    IF ~inT THEN [called |-> TRUE, inThrottle |-> TRUE, timer |-> 0]
    ELSE [called |-> FALSE, inThrottle |-> inT, timer |-> timer]

\* handleScroll: if (!ticking) { requestAnimationFrame(updateVelocity); ticking = true }
handleScroll(tk) == [request |-> ~tk, ticking |-> TRUE]

Samples == Len(deltas[1]) + Len(deltas[2])

Bump(n) == Min(n + 1, 2)

\* A scroll event with window.scrollY = y: the scroll listeners run in
\* registration order, the throttled handleScroll of the first controller,
\* then the listener of the second.
Scroll(y) ==
    /\ scrolling
    /\ scrollY' = y
    /\ LET bound1 == HasListener(1, "window", 1, "scroll")
           bound2 == HasListener(2, "window", 1, "scroll")
           th == throttle(inThrottle, throttleTimer)
           hs == handleScroll(ticking)
       IN  /\ bound2 => Samples < MaxSamples
           /\ IF bound1
                THEN /\ inThrottle' = th.inThrottle
                     /\ throttleTimer' = th.timer
                     /\ ticking' = IF th.called THEN hs.ticking ELSE ticking
                     /\ rafPending' = IF th.called /\ hs.request THEN TRUE
                                      ELSE rafPending
                     /\ win' =
                          IF throttleTimer < 0
                            THEN [calls |-> IF th.called THEN 1 ELSE 0,
                                  rafs |-> IF th.called /\ hs.request THEN 1 ELSE 0,
                                  dropAt |-> -1]
                            ELSE [calls |-> IF th.called THEN Bump(win.calls)
                                            ELSE win.calls,
                                  rafs |-> IF th.called /\ hs.request
                                             THEN Bump(win.rafs) ELSE win.rafs,
                                  dropAt |-> IF th.called THEN win.dropAt
                                             ELSE throttleTimer]
                ELSE UNCHANGED << inThrottle, throttleTimer, ticking,
                                  rafPending, win >>
           /\ IF bound2 THEN Sample(2, y) ELSE NoSample
           /\ mutInFrame' =
                [mutInFrame EXCEPT ![2] = IF bound2 THEN Bump(@) ELSE @]
           /\ mutInWindow' =
                [c \in Controllers |->
                   IF bound1 /\ throttleTimer < 0
                     THEN (IF c = 2 /\ bound2 THEN 1 ELSE 0)
                     ELSE (IF c = 2 /\ bound2 THEN Bump(mutInWindow[c])
                           ELSE mutInWindow[c])]
    /\ UNCHANGED << envVars, startVars, scrolling, cardVars, magnetVars >>

\* time passes while the throttle's timer is pending: its age becomes t
Tick(t) ==
    /\ throttleTimer >= 0
    /\ t > throttleTimer
    /\ throttleTimer' = t
    /\ UNCHANGED << envVars, startVars, scrollY, scrolling,
                    lastScrollY, scrollVelocity, velocityHistory, inThrottle,
                    ticking, rafPending, deltas, mutInFrame, mutInWindow,
                    win, cardVars, magnetVars >>

\* a timer callback that leaves the flag set
TimerFireKeepsFlag ==
    /\ throttleTimer >= ThrottleLimit
    /\ inThrottle' = inThrottle
    /\ throttleTimer' = -1
    /\ win' = NoWindow
    /\ UNCHANGED << envVars, startVars, scrollY, scrolling,
                    lastScrollY, scrollVelocity, velocityHistory, ticking,
                    rafPending, deltas, mutInFrame, mutInWindow,
                    cardVars, magnetVars >>

\* setTimeout(() => inThrottle = false, limit)
TimerFire ==
    /\ throttleTimer >= ThrottleLimit
    /\ inThrottle' = FALSE
    /\ throttleTimer' = -1
    /\ win' = NoWindow
    /\ UNCHANGED << envVars, startVars, scrollY, scrolling,
                    lastScrollY, scrollVelocity, velocityHistory, ticking,
                    rafPending, deltas, mutInFrame, mutInWindow,
                    cardVars, magnetVars >>

\* An animation frame: the queued updateVelocity runs.
Frame ==
    /\ rafPending => Samples < MaxSamples
    /\ IF rafPending
         THEN /\ Sample(1, scrollY)
              /\ ticking' = FALSE
              /\ rafPending' = FALSE
              /\ mutInWindow' = [mutInWindow EXCEPT ![1] = Bump(@)]
         ELSE /\ NoSample
              /\ UNCHANGED << ticking, rafPending, mutInWindow >>
    /\ mutInFrame' = [c \in Controllers |-> IF c = 1 /\ rafPending THEN 1 ELSE 0]
    /\ UNCHANGED << envVars, startVars, scrollY, scrolling,
                    inThrottle, throttleTimer, win, cardVars, magnetVars >>

\* the user stops scrolling for good
StopScrolling ==
    /\ scrolling
    /\ scrolling' = FALSE
    /\ UNCHANGED << envVars, startVars, scrollY, lastScrollY,
                    scrollVelocity, velocityHistory, inThrottle, throttleTimer,
                    ticking, rafPending, deltas, mutInFrame, mutInWindow,
                    win, cardVars, magnetVars >>

\* onUpdate of the velocity-reaction tween: if (scrollVelocity < 0.5) gsap.to(
\* element, { y: 0, rotation: 0, ... })
onUpdate(v, reset) == reset \/ BelowThreshold(v)

\* A tick of the library while the velocity-reaction tweens of controller c
\* run: the first tick resolves y: () => scrollVelocity * 0.03 * ..., every
\* tick calls onUpdate; finish: the tweens' 0.6 s are over.
GsapTick(c, finish) ==
    /\ cardTween[c] \in {"created", "running"}
    /\ cardAmp' = [cardAmp EXCEPT
                     ![c] = IF cardTween[c] = "created" THEN scrollVelocity[c]
                            ELSE @]
    /\ cardReset' = [cardReset EXCEPT ![c] = onUpdate(scrollVelocity[c], @)]
    /\ cardTween' = [cardTween EXCEPT
                       ![c] = IF finish THEN "complete" ELSE "running"]
    /\ UNCHANGED << envVars, startVars, scrollVars, magnetVars >>

StartupScroll ==
    \/ \E c \in Controllers : RunController(c, FALSE)
    \/ DOMContentLoaded(EarlyInSecond)

NextScroll ==
    \/ StartupScroll
    \/ \E y \in ScrollPositions : Scroll(y)
    \/ \E t \in Instants : Tick(t)
    \/ TimerFire
    \/ Frame

SpecScroll == InitMotion /\ [][NextScroll]_vars

-----------------------------------------------------------------------------
(***************************************************************************)
(* Settling: the velocity-reaction tweens and the end of scrolling.        *)
(***************************************************************************)
NextSettle ==
    \/ NextScroll /\ Samples' <= MaxSettleSamples
    \/ StopScrolling
    \/ \E c \in Controllers, finish \in BOOLEAN : GsapTick(c, finish)

\* time passes, timers fire, frames are painted, the document becomes ready
\* and the 0.6 s of a tween end
FairSettle ==
    /\ WF_vars(\E t \in Instants : Tick(t))
    /\ WF_vars(TimerFire)
    /\ WF_vars(Frame)
    /\ WF_vars(StartupScroll)
    /\ \A c \in Controllers : WF_vars(GsapTick(c, TRUE))

SpecSettle == InitMotion /\ [][NextSettle]_vars /\ FairSettle

-----------------------------------------------------------------------------
(***************************************************************************)
(* The throttled sampler under fair timers and frames.  A scroll event is  *)
(* taken only while the samples it leads to, the one of a pending frame    *)
(* included, are within the bound, so that no frame waits for ever.        *)
(***************************************************************************)
PendingSamples == Samples + (IF rafPending THEN 1 ELSE 0)

NextSampler == NextScroll /\ PendingSamples' <= MaxSettleSamples

\* time passes, the timer's callback and the frame's callback run
FairSampler ==
    /\ WF_vars(\E t \in Instants : Tick(t))
    /\ WF_vars(TimerFire)
    /\ WF_vars(Frame)

SpecSampler == InitMotion /\ [][NextSampler]_vars /\ FairSampler

-----------------------------------------------------------------------------
(***************************************************************************)
(* Pointer magnetism.  Targets are in 1/100 px; the boxes of Rects have    *)
(* even sizes, so that width / 2 and height / 2 are whole numbers.         *)
(***************************************************************************)
\* the offset taken from the box's corner: "- rect.width / 2" forgotten
MagnetTargetFromCorner(cx, cy, rect) ==
    [x |-> (cx - rect.left) * Magnetism, y |-> (cy - rect.top) * Magnetism]

\* the mouseenter and mousemove listeners:
\* const x = e.clientX - rect.left - rect.width / 2 (y alike);
\* gsap.to(button, { x: x * 0.08, y: y * 0.08, ... })
MagnetTarget(cx, cy, rect) ==
    [x |-> (cx - rect.left - rect.width \div 2) * Magnetism,
     y |-> (cy - rect.top - rect.height \div 2) * Magnetism]

\* the mouseleave listener: gsap.to(button, { x: 0, y: 0, ... })
magnetRelease == [x |-> 0, y |-> 0]

Hovered(b) == lastMouse[b].type \in {"mouseenter", "mousemove"}

\* The pointer event ev on button b, at (cx, cy) while the button's box is
\* rect: every listener registered for it runs, in registration order, and
\* the tween created last sets the button's target.
MouseEvent(b, ev, cx, cy, rect) ==
    /\ b <= dom[".cs_btn.cs_style_1"]
    /\ IF ev = "mouseenter"
         THEN \A o \in Buttons : ~Hovered(o)
         ELSE Hovered(b)
    /\ LET handled == \E c \in Controllers :
                          HasListener(c, ".cs_btn.cs_style_1", b, ev)
       IN  /\ btnTarget' =
                [btnTarget EXCEPT
                   ![b] = IF ~handled THEN @
                          ELSE IF ev = "mouseleave" THEN magnetRelease
                          ELSE MagnetTarget(cx, cy, rect)]
           /\ lastMouse' =
                [lastMouse EXCEPT
                   ![b] = [type |-> ev, cx |-> cx, cy |-> cy, rect |-> rect,
                           handled |-> handled]]
    /\ UNCHANGED << envVars, startVars, scrollVars, cardVars >>

StartupNoThrow ==
    \/ \E c \in Controllers : RunController(c, FALSE)
    \/ DOMContentLoaded(Nowhere)

NextMagnet ==
    \/ StartupNoThrow
    \/ \E b \in Buttons, cx \in ClientXs, cy \in ClientYs, rect \in Rects :
          \/ MouseEvent(b, "mouseenter", cx, cy, rect)
          \/ MouseEvent(b, "mousemove", cx, cy, rect)
    \/ \E b \in Buttons : MouseEvent(b, "mouseleave", 0, 0, NoRect)

SpecMagnet == InitMotion /\ [][NextMagnet]_vars

-----------------------------------------------------------------------------
(***************************************************************************)
(* Properties of the scroll-velocity estimators.                           *)
(***************************************************************************)
LastN(q, n) == SubSeq(q, Len(q) - n + 1, Len(q))

PossibleDeltas == { Abs(a - b) : a, b \in ScrollPositions }

\* C1: the velocity history of either controller never holds more than 5
\* entries, and after every sample it is the most recent min(n, 5) absolute
\* deltas in arrival order, n being the number of samples taken.
C1_HistoryIsRecentDeltas ==
    \A c \in Controllers :
        /\ Len(velocityHistory[c]) <= 5
        /\ velocityHistory[c] = LastN(deltas[c], Min(Len(deltas[c]), 5))

\* a sixth sample has evicted the oldest entry, which differed from the rest
C1_Witness ==
    /\ Len(deltas[1]) >= 6
    /\ deltas[1][1] = 10
    /\ \A i \in 2..6 : deltas[1][i] = 0
    /\ velocityHistory[1] = << 0, 0, 0, 0, 0 >>

\* C2: after every sample the velocity is the arithmetic mean of the whole
\* retained history, so that once the last six samples (indeed the last five)
\* all have delta d the velocity is d.
C2_VelocityIsWindowMean ==
    \A c \in Controllers :
        deltas[c] # << >> =>
            /\ scrollVelocity[c].num * Len(velocityHistory[c])
                 = Sum(velocityHistory[c]) * scrollVelocity[c].den
            /\ scrollVelocity[c].den > 0
            /\ \A k \in {5, 6}, d \in PossibleDeltas :
                 (Len(deltas[c]) >= k
                    /\ \A i \in 1..k : LastN(deltas[c], k)[i] = d)
                 => scrollVelocity[c] = [num |-> d, den |-> 1]

\* six samples of delta 10 in a row: the velocity is 10
C2_Witness ==
    /\ Len(deltas[1]) >= 6
    /\ \A i \in 1..6 : LastN(deltas[1], 6)[i] = 10
    /\ scrollVelocity[1] = [num |-> 10, den |-> 1]

\* C3: the throttle lets the first scroll event of a window through at once
\* and drops every further event until its timer fires: while the timer is
\* pending handleScroll has been called exactly once and at most one frame-
\* sample has been requested, and a dropped event changes neither the frame
\* request nor the estimator.
C3_LeadingEdgeThrottle ==
    /\ [](throttleTimer >= 0 =>
            inThrottle /\ win.calls = 1 /\ win.rafs <= 1)
    /\ [][(win'.dropAt # win.dropAt /\ win'.dropAt >= 0) =>
            UNCHANGED << ticking, rafPending, inThrottle, throttleTimer,
                         lastScrollY[1], velocityHistory[1], scrollVelocity[1] >>]_vars

\* two events 10 ms apart: the first requested the one frame-sample, the
\* second was dropped
C3_Witness ==
    /\ win.dropAt = 10
    /\ win.calls = 1
    /\ win.rafs = 1
    /\ rafPending

\* C4: the velocity state of either controller is updated at most once per
\* animation frame and at most once per window of the 50 ms throttle.
C4_AtMostOneUpdate ==
    \A c \in Controllers : mutInFrame[c] <= 1 /\ mutInWindow[c] <= 1

(***************************************************************************)
(* Properties of pointer magnetism and of settling.                        *)
(***************************************************************************)
\* the offset of a pointer event from the centre of the button's box
OffsetX(m) == m.cx - (m.rect.left + m.rect.width \div 2)

OffsetY(m) == m.cy - (m.rect.top + m.rect.height \div 2)

\* C9: after a pointer-enter or pointer-move at offset (dx, dy) from the
\* button's centre the button's target is (0.08 dx, 0.08 dy), and after a
\* pointer-leave it is (0, 0), whatever enter and move events came before.
C9_MagnetTarget ==
    \A b \in Buttons :
        lastMouse[b].handled =>
            IF lastMouse[b].type = "mouseleave"
              THEN btnTarget[b] = [x |-> 0, y |-> 0]
              ELSE \* 0.08 px is 8/100 px
                   /\ btnTarget[b].x = 8 * OffsetX(lastMouse[b])
                   /\ btnTarget[b].y = 8 * OffsetY(lastMouse[b])

\* a pointer event at offset (20, -10): the target is (1.6, -0.8)
C9_Witness ==
    \E b \in Buttons :
        /\ lastMouse[b].handled
        /\ lastMouse[b].type = "mouseenter"
        /\ OffsetX(lastMouse[b]) = 20
        /\ OffsetY(lastMouse[b]) = -10
        /\ btnTarget[b] = [x |-> 160, y |-> -80]

\* the velocity-reaction elements of controller c are animated to rest: the
\* newest tween on them targets y = 0, rotation = 0
CardsAtRest(c) ==
    cardTween[c] # "none" =>
        \/ cardReset[c]
        \/ cardTween[c] # "created" /\ cardAmp[c] = Zero

Settled ==
    \A c \in Controllers :
        HasListener(c, "window", 1, "scroll") =>
            BelowThreshold(scrollVelocity[c]) /\ CardsAtRest(c)

\* C10: once scrolling has stopped, the velocity estimate eventually is
\* below 0.5 and every velocity-reaction element is animated back to rest.
C10_SettlesAfterScrollStops == [](~scrolling => <>Settled)

(***************************************************************************)
(* Properties of startup.                                                  *)
(***************************************************************************)
\* what the registration pass of controller c has registered
PassEntries(c) == SelectSeq(registry, LAMBDA e : e.ctl = c /\ e.fn # "top")

ControllerEntries == SelectSeq(registry, LAMBDA e : e.ctl \in Controllers)

\* C5: if gsap is absent or reduced motion is preferred, the controllers
\* never register a tween or a listener, and no exception reaches the page.
C5_ClosedGateRegistersNothing ==
    (~gsapDefined \/ prefersReducedMotion) =>
        /\ ControllerEntries = << >>
        /\ uncaught = {}
        /\ \A c \in Controllers : initState[c] = "idle"

\* gsap is absent, both controllers have run and the document is ready
C5_Witness ==
    /\ ~gsapDefined
    /\ ~prefersReducedMotion
    /\ \A c \in Controllers : script[c] = "gated" /\ << c, "log" >> \in console
    /\ readyState = "interactive"
    /\ ControllerEntries = << >>

\* the heavy effects: layered parallax, velocity reaction, idle micro-motion,
\* depth and pointer magnetism
HeavyEffects ==
    { "multiLayerParallax", "scrollVelocityParallax",
      "pinnedSectionMicroMovements", "subtlePerspectiveDepth",
      "magneticHoverEffect" }

\* C6: on a mobile runtime, once startup is over, no heavy effect is
\* registered; only the reduced subset is.
C6_MobileRegistersNoHeavyEffect ==
    (isMobile /\ readyState = "interactive") =>
        \A i \in 1..Len(registry) :
            registry[i].ctl \in Controllers =>
                \/ registry[i].fn \notin HeavyEffects
                \/ registry[i] = Tween(registry[i].ctl, "multiLayerParallax",
                                       "from", ".cs_hero", 1, FALSE)

\* C7: on a mobile runtime where the hero element exists, the startup pass
\* of the first controller registers the simple fade-in of the hero.
C7_MobileRegistersHeroFade ==
    (isMobile /\ dom[".cs_hero"] > 0 /\ initState[1] = "done") =>
        \E i \in 1..Len(registry) :
            registry[i] = Tween(1, "multiLayerParallax", "from", ".cs_hero",
                                1, FALSE)

\* C8: when a registration call throws, the error is caught and logged and
\* does not reach the page, the pass has registered exactly what precedes
\* the failing call and nothing after it, and what is registered stays.
C8_ThrowAbortsRestOfPass ==
    /\ [](\A c \in Controllers :
            initState[c] = "caught" =>
              /\ << c, "error" >> \in console
              /\ \A u \in uncaught : u[2] = "setup"
              /\ LET pass == initPremiumAnimations(c, dom, isMobile)
                     done == PassEntries(c)
                 IN  /\ Len(done) < Len(pass)
                     /\ done = Prefix(pass, Len(done))
                     /\ pass[Len(done) + 1].fn = thrownIn[c])
    /\ [][IsPrefix(registry, registry')]_vars

\* the pass of the second controller threw in its fifth call, after the
\* first four had registered their effects
C8_Witness ==
    /\ initState[2] = "caught"
    /\ thrownIn[2] = "subtlePerspectiveDepth"
    /\ \E i \in 1..Len(registry) :
         registry[i].ctl = 2 /\ registry[i].fn = "pinnedSectionMicroMovements"
    /\ \A i \in 1..Len(registry) : registry[i].fn # "magneticHoverEffect"
    /\ dom[".cs_btn.cs_style_1"] > 0

(***************************************************************************)
(* Properties of the plugin, the mobile override and the documents.        *)
(***************************************************************************)
\* the effects that need no scroll trigger, with the selector each binds
NonScrollEffects ==
    { << "scrollVelocityParallax", ".property-card" >>,
      << "pinnedSectionMicroMovements", ".cs_card.cs_style_5" >>,
      << "magneticHoverEffect", ".cs_btn.cs_style_1" >> }

\* C11: with gsap present and the ScrollTrigger plugin absent no tween that
\* carries a scroll trigger is registered, while a pass that ran all the
\* heavy effects has registered the velocity reaction, the idle micro-motion
\* and the pointer magnetism on the elements they match.
C11_NoPluginNoScrollBinding ==
    (gsapDefined /\ ~prefersReducedMotion /\ ~ScrollTriggerDefined) =>
        /\ \A i \in 1..Len(registry) : ~registry[i].st
        /\ \A c \in Controllers :
             (initState[c] = "done" /\ ~(c = 1 /\ isMobile)) =>
                \A e \in NonScrollEffects :
                    dom[e[2]] > 0 =>
                        \E i \in 1..Len(registry) :
                            /\ registry[i].ctl = c
                            /\ registry[i].fn = e[1]
                            /\ registry[i].sel = e[2]

\* what the mobile override has registered
OverrideEntries ==
    SelectSeq(registry, LAMBDA e : e.ctl = 0 /\ e.fn = "optimizeScrolling")

\* C12: on a mobile runtime the override (style, touch-action, the touchstart
\* listener, the no-hover class) is applied exactly once, when the document
\* is ready, whatever gsap and the reduced-motion preference are and whether
\* or not a controller ran; on another runtime it is never applied.
C12_MobileOverrideOnce ==
    /\ mobileApplied <= 1
    /\ Len(OverrideEntries) = mobileApplied
    /\ ("no-hover" \in htmlClasses) <=> (mobileApplied = 1)
    /\ ~isMobile =>
         /\ mobileApplied = 0
         /\ \A i \in 1..Len(registry) : registry[i].ctl # 0
    /\ (isMobile /\ readyState = "loading") => mobileApplied = 0
    /\ (isMobile /\ readyState = "interactive" /\ script[0] = "done") =>
         mobileApplied = 1

\* a mobile runtime without gsap: both controllers stopped at their gate, and
\* the override was applied by its DOMContentLoaded listener
C12_Witness ==
    /\ isMobile
    /\ ~gsapDefined
    /\ \A c \in Controllers : script[c] = "gated"
    /\ HasDclHandler(0)
    /\ readyState = "interactive"
    /\ mobileApplied = 1
    /\ "no-hover" \in htmlClasses

\* the selectors on whose matches function fn of controller c registers
SelectorsOf(c, fn) ==
    LET full == initPremiumAnimations(c, FullDoc, FALSE)
    IN  { full[i].sel : i \in { j \in 1..Len(full) : full[j].fn = fn } }

Bound(c) == HasListener(c, "window", 1, "scroll")

\* C14: binding sets lastScrollY to the scroll offset S of that moment, it
\* keeps that value until the first sample, and a first sample taken while
\* the offset is S again records delta 0: history <<0>>, velocity 0.
C14_FirstSampleHasNoSpike ==
    [][\A c \in Controllers :
         /\ (~Bound(c) /\ Bound(c)') =>
               (lastScrollY'[c] = scrollY /\ scrollY' = scrollY)
         /\ (Bound(c) /\ deltas[c] = << >> /\ deltas'[c] = << >>) =>
               lastScrollY'[c] = lastScrollY[c]
         /\ (Bound(c) /\ deltas[c] = << >> /\ deltas'[c] # << >>
               /\ scrollY' = lastScrollY[c]) =>
               /\ deltas'[c] = << 0 >>
               /\ velocityHistory'[c] = << 0 >>
               /\ scrollVelocity'[c] = Zero
               /\ lastScrollY'[c] = lastScrollY[c]]_vars

\* the first controller was bound at offset 10 and its first sample, taken
\* at offset 10, recorded 0
C14_Witness ==
    /\ deltas[1] = << 0 >>
    /\ velocityHistory[1] = << 0 >>
    /\ scrollVelocity[1] = Zero
    /\ lastScrollY[1] = 10
    /\ scrollY = 10

\* the order of the bindings: layered parallax, focus transition, velocity
\* reaction, idle micro-motion and reveal, depth, pointer magnetism
BindingOrder ==
    << "multiLayerParallax", "imageFocusTransition", "scrollVelocityParallax",
       "pinnedSectionMicroMovements", "subtlePerspectiveDepth",
       "magneticHoverEffect" >>

Rank(fn) == CHOOSE k \in 1..Len(BindingOrder) : BindingOrder[k] = fn

\* the registrations of the six bindings made by the pass of controller c
BindingEntries(c) ==
    SelectSeq(PassEntries(c),
              LAMBDA e : \E k \in 1..Len(BindingOrder) : BindingOrder[k] = e.fn)

\* C15: the pass of either controller registers the six bindings in the
\* order of BindingOrder, and within a binding the registrations on the
\* matches of a selector follow the order of the query result.
C15_FixedRegistrationOrder ==
    \A c \in Controllers :
        LET e == BindingEntries(c)
        IN  \A i, j \in 1..Len(e) :
                i < j =>
                    /\ Rank(e[i].fn) <= Rank(e[j].fn)
                    /\ (e[i].fn = e[j].fn /\ e[i].sel = e[j].sel) =>
                          e[i].idx <= e[j].idx

\* C16: the flags of the throttled sampler are set only while their
\* callback is pending, each pending callback runs and clears its flag, and
\* a scroll event that finds both flags clear requests a frame-sample.
C16_SamplerNeverBlocked ==
    /\ []((throttleTimer < 0 => ~inThrottle) /\ (~rafPending => ~ticking))
    /\ [](inThrottle => <>(~inThrottle))
    /\ [](ticking => <>(~ticking))
    /\ [][(Bound(1) /\ ~inThrottle /\ ~ticking
             /\ \E y \in ScrollPositions : Scroll(y)) =>
            (rafPending' /\ ticking' /\ inThrottle' /\ throttleTimer' = 0)]_vars

\* after a first sample and the end of its throttle window, a scroll event
\* has requested the second sample
C16_Witness ==
    /\ Len(deltas[1]) = 1
    /\ rafPending
    /\ ticking
    /\ inThrottle
    /\ throttleTimer = 0

=============================================================================
